---- MODULE Spec2Model ----
(***************************************************************************)
(* Bootstrap of the opendatahub operator process: cmd/main.go, the         *)
(* operator Factory and mainOperator.Setup / Start.                        *)
(*                                                                         *)
(* Errors are sequences of tokens <<tag, string>>; the empty sequence is   *)
(* the nil error and fmt.Errorf("msg: %w", err) prepends the tokens of the *)
(* message to the wrapped error.                                           *)
(***************************************************************************)
EXTENDS Integers, Sequences, FiniteSets, TLC

VARIABLES
    pc,          \* position of the main goroutine
    exitCode,    \* process exit status, NoExit while the process runs
    env,         \* DISABLE_DSC_CONFIG: <<>> when absent, <<value>> when set
    operatorNs,  \* cluster.GetOperatorNamespace: <<>> when it fails, <<ns>> otherwise
    services,    \* service handler registry, in registration order
    components,  \* component handler registry, in registration order
    cancelled,   \* the root context of ctrl.SetupSignalHandler is done
    config,      \* <<>> before LoadConfig, <<cfg>> after
    factory,     \* <<>> before NewFactory, <<Factory>> after
    op,          \* <<>> or <<mainOperator>> returned by Factory.Create
    platform,    \* release.Name resolved by cluster.Init, "" before
    appNs,       \* cluster.GetApplicationNamespace, "" before cluster.Init
    steps,       \* Setup steps executed: <<step, succeeded>>
    calls,       \* handler callbacks invoked by ForEach
    setupClient, \* the non-cached client exists
    secretCache, \* keys of the Secret cache namespace map
    odhCache,    \* keys of the general cache namespace map
    mgr,         \* o.mgr: <<>> when nil, <<manager>> once stored
    webhooks,    \* RegisterAllWebhooks succeeded
    controllers, \* reconcilers registered with the manager
    runnables,   \* runnables added with mgr.Add
    addCalls,    \* calls of mgr.Add made by addStartupTasks: <<task, accepted>>
    checks,      \* health checks registered with the manager
    setupErr,    \* error returned by Setup
    mainLog,     \* calls main has made that have returned: [call, err]
    started,     \* op.Start has been called
    factoryLog,  \* results of Factory.Create calls
    leading,     \* the manager has started its leader-election runnables
    taskRuns,    \* startup task executions that have returned
    lease,       \* holder of the leader-election lease: <<>> or <<replica>>
    replicas     \* the replicas of the process that have reached Start

vars == <<pc, exitCode, env, operatorNs, services, components, cancelled,
          config, factory, op, platform, appNs, steps, calls, setupClient,
          secretCache, odhCache, mgr, webhooks, controllers, runnables,
          addCalls, checks, setupErr, mainLog, started, factoryLog, leading, taskRuns,
          lease, replicas>>

\* ------------------------------------------------------------------------
\* Bounds
MaxServices == 3
MaxComponents == 3
MaxCreateCalls == 3
MaxReplicas == 2

\* ------------------------------------------------------------------------
\* Helpers
Range(s) == {s[i] : i \in 1..Len(s)}
Min(a, b) == IF a < b THEN a ELSE b
Prefix(s, n) == SubSeq(s, 1, Min(n, Len(s)))
IsPrefix(s, t) == Len(s) <= Len(t) /\ SubSeq(t, 1, Len(s)) = s

NoError == <<>>
NoExit == -1
T(s) == <<"text", s>>
N(s) == <<"name", s>>
Cause(s) == <<<<"cause", s>>>>
\* fmt.Errorf(msg + "%w", err)
Wrap(msg, err) == msg \o err

\* ------------------------------------------------------------------------
\* Values defined by collaborators of the bootstrap code
ManagedRhoai == "OpenShift AI Cloud Service"
SelfManagedRhoai == "OpenShift AI Self-Managed"
OpenDataHub == "Open Data Hub"
Platforms == {ManagedRhoai, SelfManagedRhoai, OpenDataHub}
NamespaceConsoleLink == "redhat-ods-applications"
MonitoringNs == "redhat-ods-monitoring"
IngressNs == "openshift-ingress"
OperatorsNs == "openshift-operators"

\* namespaces the process may be installed in / may resolve as application namespace
OperatorNamespaces == {"redhat-ods-operator", "openshift-operators", "redhat-ods-applications"}
AppNamespaces == {"opendatahub", "redhat-ods-applications", "openshift-operators"}
\* what cluster.GetApplicationNamespace may hand back: a namespace, or the empty
\* string when the application namespace could not be resolved
Unresolved == ""
AppNamespaceLookups == AppNamespaces \cup {Unresolved}
\* values of DISABLE_DSC_CONFIG
EnvValues == {<<>>, <<"">>, <<"false">>, <<"true">>, <<"no">>}

\* handlers registered by the init() of the packages imported by main.go
ServiceOrder == <<"auth", "certconfigmapgenerator", "gateway", "monitoring", "setup">>
ComponentOrder == <<"dashboard", "datasciencepipelines", "feastoperator", "kserve", "kueue">>

Configs == {[LeaderElection |-> b] : b \in BOOLEAN}

\* ------------------------------------------------------------------------
\* Factory
OperatorTypeMain == "main"
OperatorTypeCloudManager == "cloud-manager"
Kinds == {OperatorTypeMain, OperatorTypeCloudManager, "bogus", "", "Main"}

\* operator.New
New(cfg) == [type |-> "mainOperator", config |-> cfg]

NewFactory(cfg) == [config |-> cfg]

\* Factory.Create, variant that falls back to the main operator
CreateDefaulting(f, operatorType) ==
    IF operatorType = OperatorTypeCloudManager
    THEN [op |-> <<>>, err |-> <<T("cloud-manager"), T(" operator not yet implemented")>>]
    ELSE [op |-> <<New(f.config)>>, err |-> NoError]

\* Factory.Create
Create(f, operatorType) ==
    CASE operatorType = OperatorTypeMain ->
           [op |-> <<New(f.config)>>, err |-> NoError]
      [] operatorType = OperatorTypeCloudManager ->
           [op |-> <<>>, err |-> <<T("cloud-manager"), T(" operator not yet implemented")>>]
      [] OTHER ->
           [op |-> <<>>, err |-> <<T("unknown operator type: "), <<"arg", operatorType>>>>]

\* ------------------------------------------------------------------------
\* Handler registries

\* one callback invocation made by ForEach
CallRec(phase, kind, h, arg, ok) ==
    [phase |-> phase, kind |-> kind, name |-> h, arg |-> arg, ok |-> ok]

RECURSIVE ForEachFrom(_, _, _)
ForEachFrom(reg, errOf, i) ==
    IF i > Len(reg)
    THEN [invoked |-> <<>>, err |-> NoError]
    ELSE LET h == reg[i]
             e == errOf[h]
         IN IF e # NoError
            THEN [invoked |-> <<h>>, err |-> Wrap(<<N(h)>>, e)]
            ELSE LET rest == ForEachFrom(reg, errOf, i + 1)
                 IN [invoked |-> <<h>> \o rest.invoked, err |-> rest.err]

\* sr.ForEach / cr.ForEach: errOf[h] is what the callback returns for handler h
ForEach(reg, errOf) == ForEachFrom(reg, errOf, 1)

\* callback of initServices: the error of sh.Init(p) is returned as it is
initServicesFn(h, fails) == IF fails THEN Cause(h) ELSE NoError

\* callback of initComponents
initComponentsFn(h, fails) == IF fails THEN Cause(h) ELSE NoError

\* callback of createServiceReconcilers, variant that drops the error
createServiceReconcilersFnSwallow(h, fails) == NoError

\* callback of createServiceReconcilers
createServiceReconcilersFn(h, fails) ==
    IF fails
    THEN Wrap(<<T("error creating "), N(h), T(" service reconciler: ")>>, Cause(h))
    ELSE NoError

\* callback of createComponentReconcilers
createComponentReconcilersFn(h, fails) ==
    IF fails
    THEN Wrap(<<T("error creating "), N(h), T(" component reconciler: ")>>, Cause(h))
    ELSE NoError

\* in the operators below the handlers of reg that are in F fail the call

\* initServices, variant that rejects an empty registry
initServicesNonEmpty(reg, F) ==
    IF reg = <<>>
    THEN [invoked |-> <<>>, err |-> Cause("no handlers")]
    ELSE ForEach(reg, [h \in Range(reg) |-> initServicesFn(h, h \in F)])

\* initServices
initServices(reg, F) == ForEach(reg, [h \in Range(reg) |-> initServicesFn(h, h \in F)])

\* initComponents
initComponents(reg, F) == ForEach(reg, [h \in Range(reg) |-> initComponentsFn(h, h \in F)])

\* createServiceReconcilers
createServiceReconcilers(reg, F) == ForEach(reg, [h \in Range(reg) |-> createServiceReconcilersFn(h, h \in F)])

\* createComponentReconcilers
createComponentReconcilers(reg, F) == ForEach(reg, [h \in Range(reg) |-> createComponentReconcilersFn(h, h \in F)])

\* ------------------------------------------------------------------------
\* Cache policy

\* getCommonCache, variant that adds the console-link namespace on every platform
getCommonCacheAlways(p, opNs, app) ==
    IF opNs = <<>>
    THEN [ns |-> {}, err |-> Cause("operator namespace")]
    ELSE [ns |-> {opNs[1], MonitoringNs, app, NamespaceConsoleLink}, err |-> NoError]

\* getCommonCache: the keys of namespaceConfigs
getCommonCache(p, opNs, app) ==
    IF opNs = <<>>
    THEN [ns |-> {}, err |-> Cause("operator namespace")]
    ELSE [ns |-> {opNs[1], MonitoringNs, app}
                 \cup (IF p = ManagedRhoai THEN {NamespaceConsoleLink} ELSE {}),
          err |-> NoError]

\* createSecretCacheConfig
createSecretCacheConfig(p, opNs, app) ==
    LET c == getCommonCache(p, opNs, app)
    IN IF c.err # NoError
       THEN [ns |-> {}, err |-> c.err]
       ELSE [ns |-> c.ns \cup {IngressNs}, err |-> NoError]

\* createODHGeneralCacheConfig, variant that leaves out openshift-ingress
createODHGeneralCacheConfigNoIngress(p, opNs, app) ==
    LET c == getCommonCache(p, opNs, app)
    IN IF c.err # NoError
       THEN [ns |-> {}, err |-> c.err]
       ELSE [ns |-> c.ns \cup {OperatorsNs}, err |-> NoError]

\* createODHGeneralCacheConfig
createODHGeneralCacheConfig(p, opNs, app) ==
    LET c == getCommonCache(p, opNs, app)
    IN IF c.err # NoError
       THEN [ns |-> {}, err |-> c.err]
       ELSE [ns |-> c.ns \cup {OperatorsNs, IngressNs}, err |-> NoError]

\* ------------------------------------------------------------------------
\* Setup: control flow

\* the statements of Setup, in program order
SetupOrderManagerFirst ==
    <<"client", "clusterInit", "secretCache", "odhCache", "newManager",
      "initServices", "initComponents", "webhooks", "dsci", "dsc",
      "serviceReconcilers", "componentReconcilers", "startupTasks",
      "healthz", "readyz">>

SetupOrderComponentsFirst ==
    <<"client", "clusterInit", "initComponents", "initServices",
      "secretCache", "odhCache", "newManager", "webhooks", "dsci", "dsc",
      "componentReconcilers", "serviceReconcilers", "startupTasks",
      "healthz", "readyz">>

SetupOrder ==
    <<"client", "clusterInit", "initServices", "initComponents",
      "secretCache", "odhCache", "newManager", "webhooks", "dsci", "dsc",
      "serviceReconcilers", "componentReconcilers", "startupTasks",
      "healthz", "readyz">>

IndexOf(s, x) == CHOOSE i \in 1..Len(s) : s[i] = x

NextStep(step) ==
    LET i == IndexOf(SetupOrder, step)
    IN IF i = Len(SetupOrder) THEN "setupReturned" ELSE SetupOrder[i + 1]

\* the message each step's error is wrapped with
WrapMsg(step) ==
    CASE step = "client" -> <<T("error getting client for setup: ")>>
      [] step = "clusterInit" -> <<T("unable to initialize cluster config: ")>>
      [] step = "initServices" -> <<T("unable to init services: ")>>
      [] step = "initComponents" -> <<T("unable to init components: ")>>
      [] step = "secretCache" -> <<T("unable to get application namespace into cache: ")>>
      [] step = "odhCache" -> <<T("unable to get application namespace into cache: ")>>
      [] step = "newManager" -> <<T("unable to start manager: ")>>
      [] step = "webhooks" -> <<T("unable to register webhooks: ")>>
      [] step = "dsci" -> <<T("unable to create controller DSCInitialization: ")>>
      [] step = "dsc" -> <<T("unable to create controller DataScienceCluster: ")>>
      [] step = "serviceReconcilers" -> <<T("unable to create service controllers: ")>>
      [] step = "componentReconcilers" -> <<T("unable to create component controllers: ")>>
      [] step = "startupTasks" -> <<>>
      [] step = "healthz" -> <<T("unable to set up health check: ")>>
      [] step = "readyz" -> <<T("unable to set up ready check: ")>>

\* "if err != nil { return fmt.Errorf(...) }", variant that ignores a webhook failure
StepResultLenient(step, err) ==
    IF err = NoError \/ step = "webhooks"
    THEN [pc |-> NextStep(step), err |-> NoError]
    ELSE [pc |-> "setupReturned", err |-> Wrap(WrapMsg(step), err)]

\* "if err != nil { return fmt.Errorf(...) }" after each step of Setup
StepResult(step, err) ==
    IF err = NoError
    THEN [pc |-> NextStep(step), err |-> NoError]
    ELSE [pc |-> "setupReturned", err |-> Wrap(WrapMsg(step), err)]

\* a step of Setup ends with err
Finish(step, err) ==
    /\ steps' = Append(steps, <<step, err = NoError>>)
    /\ pc' = StepResult(step, err).pc
    /\ setupErr' = StepResult(step, err).err

\* outcomes of a call into a collaborator
Outcomes(what) == {NoError, Cause(what)}

\* ------------------------------------------------------------------------
\* Startup tasks

DSCITask == "createDefaultDSCI"
DSCTask == "createDefaultDSC"
CleanupTask == "cleanup"
Tasks == {DSCITask, DSCTask, CleanupTask}

\* the opt-out test, variant that only honours the value "true"
DSCIDisabledOnlyTrue(e) == e = <<"true">>

\* the opt-out test, variant that only looks at the presence of the variable
DSCIDisabledWhenSet(e) == e # <<>>

\* existDSCConfig && disableDSCConfig != "false"
DSCIDisabled(e) == e # <<>> /\ e[1] # "false"

\* the platform test for the default DSC, variant true of both RHOAI flavors
WantDSCAnyRhoai(p) == p \in {ManagedRhoai, SelfManagedRhoai}

\* platform == cluster.ManagedRhoai
WantDSC(p) == p = ManagedRhoai

\* addStartupTasks, variant that only logs a rejected DSCI or DSC registration
addStartupTasksLenient(e, p, failing) ==
    LET wantDSCI == ~DSCIDisabled(e)
        wantDSC == WantDSC(p)
        afterDSCI == IF wantDSCI THEN <<DSCITask>> ELSE <<>>
        afterDSC == IF wantDSC THEN Append(afterDSCI, DSCTask) ELSE afterDSCI
        all == Append(afterDSC, CleanupTask)
        Tried(ts) == [i \in 1..Len(ts) |-> <<ts[i], ts[i] \notin failing>>]
    IN [added |-> SelectSeq(all, LAMBDA t : t \notin failing),
        tried |-> Tried(all), err |-> NoError]

\* addStartupTasks, variant that adds the cleanup runnable a second time
addStartupTasksTwice(e, p, failing) ==
    LET wantDSCI == ~DSCIDisabled(e)
        wantDSC == WantDSC(p)
        afterDSCI == IF wantDSCI THEN <<DSCITask>> ELSE <<>>
        afterDSC == IF wantDSC THEN Append(afterDSCI, DSCTask) ELSE afterDSCI
        Tried(ts) == [i \in 1..Len(ts) |-> <<ts[i], ts[i] \notin failing>>]
    IN IF wantDSCI /\ DSCITask \in failing
       THEN [added |-> <<>>, tried |-> Tried(afterDSCI),
             err |-> Wrap(<<T("error scheduling DSCI creation: ")>>, Cause(DSCITask))]
       ELSE IF wantDSC /\ DSCTask \in failing
       THEN [added |-> afterDSCI, tried |-> Tried(afterDSC),
             err |-> Wrap(<<T("error scheduling DSC creation: ")>>, Cause(DSCTask))]
       ELSE IF CleanupTask \in failing
       THEN [added |-> afterDSC, tried |-> Tried(Append(afterDSC, CleanupTask)),
             err |-> NoError]
       ELSE [added |-> afterDSC \o <<CleanupTask, CleanupTask>>,
             tried |-> Tried(afterDSC \o <<CleanupTask, CleanupTask>>), err |-> NoError]

\* addStartupTasks, variant that returns the error of registering the cleanup
addStartupTasksStrict(e, p, failing) ==
    LET wantDSCI == ~DSCIDisabled(e)
        wantDSC == WantDSC(p)
        afterDSCI == IF wantDSCI THEN <<DSCITask>> ELSE <<>>
        afterDSC == IF wantDSC THEN Append(afterDSCI, DSCTask) ELSE afterDSCI
        Tried(ts) == [i \in 1..Len(ts) |-> <<ts[i], ts[i] \notin failing>>]
    IN IF wantDSCI /\ DSCITask \in failing
       THEN [added |-> <<>>, tried |-> Tried(afterDSCI),
             err |-> Wrap(<<T("error scheduling DSCI creation: ")>>, Cause(DSCITask))]
       ELSE IF wantDSC /\ DSCTask \in failing
       THEN [added |-> afterDSCI, tried |-> Tried(afterDSC),
             err |-> Wrap(<<T("error scheduling DSC creation: ")>>, Cause(DSCTask))]
       ELSE IF CleanupTask \in failing
       THEN [added |-> afterDSC, tried |-> Tried(Append(afterDSC, CleanupTask)),
             err |-> Wrap(<<T("error scheduling cleanup: ")>>, Cause(CleanupTask))]
       ELSE [added |-> Append(afterDSC, CleanupTask),
             tried |-> Tried(Append(afterDSC, CleanupTask)), err |-> NoError]

\* addStartupTasks: e is the environment variable, failing the tasks mgr.Add
\* rejects; added are the runnables the manager accepted, tried the mgr.Add calls
addStartupTasks(e, p, failing) ==
    LET wantDSCI == ~DSCIDisabled(e)
        wantDSC == WantDSC(p)
        afterDSCI == IF wantDSCI THEN <<DSCITask>> ELSE <<>>
        afterDSC == IF wantDSC THEN Append(afterDSCI, DSCTask) ELSE afterDSCI
        Tried(ts) == [i \in 1..Len(ts) |-> <<ts[i], ts[i] \notin failing>>]
    IN IF wantDSCI /\ DSCITask \in failing
       THEN [added |-> <<>>, tried |-> Tried(afterDSCI),
             err |-> Wrap(<<T("error scheduling DSCI creation: ")>>, Cause(DSCITask))]
       ELSE IF wantDSC /\ DSCTask \in failing
       THEN [added |-> afterDSCI, tried |-> Tried(afterDSC),
             err |-> Wrap(<<T("error scheduling DSC creation: ")>>, Cause(DSCTask))]
       ELSE IF CleanupTask \in failing
       THEN [added |-> afterDSC, tried |-> Tried(Append(afterDSC, CleanupTask)),
             err |-> NoError]
       ELSE [added |-> Append(afterDSC, CleanupTask),
             tried |-> Tried(Append(afterDSC, CleanupTask)), err |-> NoError]

\* ------------------------------------------------------------------------
\* main: what follows each call that may fail

\* main.go: LoadConfig failed -> os.Exit(1)
AfterLoadConfig(err) ==
    IF err # NoError THEN [pc |-> "exited", exitCode |-> 1]
    ELSE [pc |-> "Create", exitCode |-> NoExit]

\* main.go: Create failed -> os.Exit(1), otherwise op.Setup(ctx) is entered
AfterCreate(err) ==
    IF err # NoError THEN [pc |-> "exited", exitCode |-> 1]
    ELSE [pc |-> SetupOrder[1], exitCode |-> NoExit]

\* main.go, variant that starts the operator whatever Setup returned
AfterSetupUnchecked(err) == [pc |-> "Start", exitCode |-> NoExit]

\* main.go: Setup failed -> os.Exit(1)
AfterSetup(err) ==
    IF err # NoError THEN [pc |-> "exited", exitCode |-> 1]
    ELSE [pc |-> "Start", exitCode |-> NoExit]

\* main.go, variant that returns from main whatever Start returned
AfterStartUnchecked(err) == [pc |-> "exited", exitCode |-> 0]

\* main.go, variant that starts the operator again when Start failed
AfterStartRestart(err) ==
    IF err # NoError THEN [pc |-> "Start", exitCode |-> NoExit]
    ELSE [pc |-> "exited", exitCode |-> 0]

\* main.go: Start failed -> os.Exit(1), otherwise main returns
AfterStart(err) ==
    IF err # NoError THEN [pc |-> "exited", exitCode |-> 1]
    ELSE [pc |-> "exited", exitCode |-> 0]

\* ------------------------------------------------------------------------
\* State

\* a call of main that has returned err
Returned(call, err) == [call |-> call, err |-> err]

MainInit ==
    /\ pc = "LoadConfig"
    /\ exitCode = NoExit
    /\ cancelled = FALSE
    /\ config = <<>>
    /\ factory = <<>>
    /\ op = <<>>
    /\ platform = ""
    /\ appNs = ""
    /\ steps = <<>>
    /\ calls = <<>>
    /\ setupClient = FALSE
    /\ secretCache = {}
    /\ odhCache = {}
    /\ mgr = <<>>
    /\ webhooks = FALSE
    /\ controllers = <<>>
    /\ runnables = <<>>
    /\ addCalls = <<>>
    /\ checks = {}
    /\ setupErr = NoError
    /\ mainLog = <<>>
    /\ started = FALSE
    /\ factoryLog = <<>>
    /\ leading = FALSE
    /\ taskRuns = {}

\* the process on its own: no other replica is looked at
NoReplicas ==
    /\ lease = <<>>
    /\ replicas = <<>>

Init ==
    /\ MainInit
    /\ NoReplicas
    /\ env \in EnvValues
    /\ operatorNs \in {<<>>} \cup {<<n>> : n \in OperatorNamespaces}
    /\ services \in {Prefix(ServiceOrder, n) : n \in 0..MaxServices}
    /\ components \in {Prefix(ComponentOrder, n) : n \in 0..MaxComponents}

environment == <<env, operatorNs, services, components>>
mainVars == <<config, factory, op, mainLog, started, factoryLog>>
setupState == <<platform, appNs, calls, setupClient, secretCache, odhCache,
                mgr, webhooks, controllers, runnables, addCalls, checks>>
setupFlow == <<steps, setupErr>>
runVars == <<leading, taskRuns>>
replicaVars == <<lease, replicas>>

\* ------------------------------------------------------------------------
\* main, before Setup

\* operatorconfig.LoadConfig
LoadConfig ==
    /\ pc = "LoadConfig"
    /\ \E err \in Outcomes("LoadConfig"), cfg \in Configs :
         /\ config' = IF err = NoError THEN <<cfg>> ELSE <<>>
         /\ pc' = AfterLoadConfig(err).pc
         /\ exitCode' = AfterLoadConfig(err).exitCode
         /\ mainLog' = Append(mainLog, Returned("LoadConfig", err))
    /\ UNCHANGED <<environment, runVars, replicaVars, cancelled, factory, op, started, factoryLog,
                   setupState, setupFlow>>

\* the signal handler installed by ctrl.SetupSignalHandler cancels the root context
Signal ==
    /\ pc \notin {"LoadConfig", "exited"}
    /\ ~cancelled
    /\ cancelled' = TRUE
    /\ UNCHANGED <<pc, exitCode, environment, runVars, replicaVars, mainVars, setupState, setupFlow>>

\* factory.NewFactory(cfg) and f.Create(factory.OperatorTypeMain)
CreateOperator ==
    /\ pc = "Create"
    /\ LET f == NewFactory(config[1])
           r == Create(f, OperatorTypeMain)
       IN /\ factory' = <<f>>
          /\ op' = r.op
          /\ mainLog' = Append(mainLog, Returned("Create", r.err))
          /\ pc' = AfterCreate(r.err).pc
          /\ exitCode' = AfterCreate(r.err).exitCode
    /\ UNCHANGED <<environment, runVars, replicaVars, cancelled, config, started, factoryLog, setupState, setupFlow>>

\* ------------------------------------------------------------------------
\* Setup, one action per statement

outer == <<exitCode, environment, cancelled, mainVars, runVars, replicaVars>>

\* client.New(o.config.RestConfig, ...)
NewClient ==
    /\ pc = "client"
    /\ \E err \in Outcomes("client.New") :
         /\ setupClient' = (err = NoError)
         /\ Finish("client", err)
    /\ UNCHANGED <<outer, addCalls, platform, appNs, calls, secretCache, odhCache, mgr,
                   webhooks, controllers, runnables, checks>>

\* cluster.Init(ctx, setupClient); cluster.GetRelease().Name
ClusterInit ==
    /\ pc = "clusterInit"
    /\ \E err \in Outcomes("cluster.Init"), p \in Platforms, a \in AppNamespaceLookups :
         /\ platform' = IF err = NoError THEN p ELSE platform
         /\ appNs' = IF err = NoError THEN a ELSE appNs
         /\ Finish("clusterInit", err)
    /\ UNCHANGED <<outer, addCalls, calls, setupClient, secretCache, odhCache, mgr,
                   webhooks, controllers, runnables, checks>>

\* the callbacks a ForEach made, as entries of the call log
Invocations(phase, kind, r, arg, F) ==
    [i \in 1..Len(r.invoked) |->
        CallRec(phase, kind, r.invoked[i], arg, r.invoked[i] \notin F)]

\* o.initServices(ctx, platform)
InitServices ==
    /\ pc = "initServices"
    /\ \E F \in SUBSET Range(services) :
         LET r == initServices(services, F)
         IN /\ calls' = calls \o Invocations("Init", "service", r, platform, F)
            /\ Finish("initServices", r.err)
    /\ UNCHANGED <<outer, addCalls, platform, appNs, setupClient, secretCache, odhCache,
                   mgr, webhooks, controllers, runnables, checks>>

\* o.initComponents(ctx, platform)
InitComponents ==
    /\ pc = "initComponents"
    /\ \E F \in SUBSET Range(components) :
         LET r == initComponents(components, F)
         IN /\ calls' = calls \o Invocations("Init", "component", r, platform, F)
            /\ Finish("initComponents", r.err)
    /\ UNCHANGED <<outer, addCalls, platform, appNs, setupClient, secretCache, odhCache,
                   mgr, webhooks, controllers, runnables, checks>>

\* o.createSecretCacheConfig(platform)
CreateSecretCache ==
    /\ pc = "secretCache"
    /\ LET r == createSecretCacheConfig(platform, operatorNs, appNs)
       IN /\ secretCache' = r.ns
          /\ Finish("secretCache", r.err)
    /\ UNCHANGED <<outer, addCalls, platform, appNs, calls, setupClient, odhCache, mgr,
                   webhooks, controllers, runnables, checks>>

\* o.createODHGeneralCacheConfig(platform)
CreateODHCache ==
    /\ pc = "odhCache"
    /\ LET r == createODHGeneralCacheConfig(platform, operatorNs, appNs)
       IN /\ odhCache' = r.ns
          /\ Finish("odhCache", r.err)
    /\ UNCHANGED <<outer, addCalls, platform, appNs, calls, setupClient, secretCache, mgr,
                   webhooks, controllers, runnables, checks>>

\* ctrl.NewManager(...) with the cache options; o.mgr = manager.New(ctrlMgr).
\* The rest config was already loaded by LoadConfig, so GetConfigOrDie returns.
NewManager ==
    /\ pc = "newManager"
    /\ \E err \in Outcomes("ctrl.NewManager") :
         /\ mgr' = IF err = NoError
                   THEN <<[secretNs |-> secretCache, generalNs |-> odhCache,
                           LeaderElection |-> op[1].config.LeaderElection]>>
                   ELSE mgr
         /\ Finish("newManager", err)
    /\ UNCHANGED <<outer, addCalls, platform, appNs, calls, setupClient, secretCache,
                   odhCache, webhooks, controllers, runnables, checks>>

\* webhook.RegisterAllWebhooks(o.mgr)
RegisterWebhooks ==
    /\ pc = "webhooks"
    /\ \E err \in Outcomes("RegisterAllWebhooks") :
         /\ webhooks' = (err = NoError)
         /\ Finish("webhooks", err)
    /\ UNCHANGED <<outer, addCalls, platform, appNs, calls, setupClient, secretCache,
                   odhCache, mgr, controllers, runnables, checks>>

\* DSCInitializationReconciler.SetupWithManager(ctx, o.mgr)
SetupDSCI ==
    /\ pc = "dsci"
    /\ \E err \in Outcomes("DSCInitialization") :
         /\ controllers' = IF err = NoError
                           THEN Append(controllers, "dscinitialization")
                           ELSE controllers
         /\ Finish("dsci", err)
    /\ UNCHANGED <<outer, addCalls, platform, appNs, calls, setupClient, secretCache,
                   odhCache, mgr, webhooks, runnables, checks>>

\* dscctrl.NewDataScienceClusterReconciler(ctx, o.mgr)
SetupDSC ==
    /\ pc = "dsc"
    /\ \E err \in Outcomes("DataScienceCluster") :
         /\ controllers' = IF err = NoError
                           THEN Append(controllers, "datasciencecluster")
                           ELSE controllers
         /\ Finish("dsc", err)
    /\ UNCHANGED <<outer, addCalls, platform, appNs, calls, setupClient, secretCache,
                   odhCache, mgr, webhooks, runnables, checks>>

\* the handlers whose reconciler was created
Created(inv) == SelectSeq(inv, LAMBDA c : c.ok)
NamesOf(inv) == [i \in 1..Len(inv) |-> inv[i].name]

\* o.createServiceReconcilers(ctx)
CreateServiceReconcilers ==
    /\ pc = "serviceReconcilers"
    /\ \E F \in SUBSET Range(services) :
         LET r == createServiceReconcilers(services, F)
             inv == Invocations("NewReconciler", "service", r, "mgr", F)
         IN /\ calls' = calls \o inv
            /\ controllers' = controllers \o NamesOf(Created(inv))
            /\ Finish("serviceReconcilers", r.err)
    /\ UNCHANGED <<outer, addCalls, platform, appNs, setupClient, secretCache, odhCache,
                   mgr, webhooks, runnables, checks>>

\* o.createComponentReconcilers(ctx)
CreateComponentReconcilers ==
    /\ pc = "componentReconcilers"
    /\ \E F \in SUBSET Range(components) :
         LET r == createComponentReconcilers(components, F)
             inv == Invocations("NewReconciler", "component", r, "mgr", F)
         IN /\ calls' = calls \o inv
            /\ controllers' = controllers \o NamesOf(Created(inv))
            /\ Finish("componentReconcilers", r.err)
    /\ UNCHANGED <<outer, addCalls, platform, appNs, setupClient, secretCache, odhCache,
                   mgr, webhooks, runnables, checks>>

\* o.addStartupTasks(ctx, setupClient, platform)
AddStartupTasks ==
    /\ pc = "startupTasks"
    /\ \E failing \in SUBSET Tasks :
         LET r == addStartupTasks(env, platform, failing)
         IN /\ runnables' = runnables \o r.added
            /\ addCalls' = addCalls \o r.tried
            /\ Finish("startupTasks", r.err)
    /\ UNCHANGED <<outer, platform, appNs, calls, setupClient, secretCache,
                   odhCache, mgr, webhooks, controllers, checks>>

\* o.mgr.AddHealthzCheck("healthz", healthz.Ping)
AddHealthzCheck ==
    /\ pc = "healthz"
    /\ \E err \in Outcomes("AddHealthzCheck") :
         /\ checks' = IF err = NoError THEN checks \cup {"healthz"} ELSE checks
         /\ Finish("healthz", err)
    /\ UNCHANGED <<outer, addCalls, platform, appNs, calls, setupClient, secretCache,
                   odhCache, mgr, webhooks, controllers, runnables>>

\* o.mgr.AddReadyzCheck("readyz", healthz.Ping)
AddReadyzCheck ==
    /\ pc = "readyz"
    /\ \E err \in Outcomes("AddReadyzCheck") :
         /\ checks' = IF err = NoError THEN checks \cup {"readyz"} ELSE checks
         /\ Finish("readyz", err)
    /\ UNCHANGED <<outer, addCalls, platform, appNs, calls, setupClient, secretCache,
                   odhCache, mgr, webhooks, controllers, runnables>>

\* ------------------------------------------------------------------------
\* main, after Setup

\* Setup has returned to main
SetupReturn ==
    /\ pc = "setupReturned"
    /\ pc' = AfterSetup(setupErr).pc
    /\ exitCode' = AfterSetup(setupErr).exitCode
    /\ mainLog' = Append(mainLog, Returned("Setup", setupErr))
    /\ UNCHANGED <<environment, runVars, replicaVars, cancelled, config, factory, op, started,
                   factoryLog, setupState, setupFlow>>

\* op.Start(ctx): o.mgr.Start(ctx); a nil o.mgr is a nil pointer dereference
StartCall ==
    /\ pc = "Start"
    /\ started' = TRUE
    /\ IF mgr # <<>>
       THEN pc' = "running" /\ exitCode' = exitCode
       ELSE pc' = "exited" /\ exitCode' = 2
    /\ UNCHANGED <<environment, runVars, replicaVars, cancelled, config, factory, op, mainLog,
                   factoryLog, setupState, setupFlow>>

\* o.mgr.Start(ctx) returns to main: nil once the context is done, or a fatal error
StartReturn ==
    /\ pc = "running"
    /\ \E err \in Outcomes("manager") :
         /\ err = NoError => cancelled
         /\ mainLog' = Append(mainLog, Returned("Start", err))
         /\ pc' = AfterStart(err).pc
         /\ exitCode' = AfterStart(err).exitCode
    /\ UNCHANGED <<environment, runVars, replicaVars, cancelled, config, factory, op, started,
                   factoryLog, setupState, setupFlow>>

Next ==
    \/ LoadConfig
    \/ Signal
    \/ CreateOperator
    \/ NewClient
    \/ ClusterInit
    \/ InitServices
    \/ InitComponents
    \/ CreateSecretCache
    \/ CreateODHCache
    \/ NewManager
    \/ RegisterWebhooks
    \/ SetupDSCI
    \/ SetupDSC
    \/ CreateServiceReconcilers
    \/ CreateComponentReconcilers
    \/ AddStartupTasks
    \/ AddHealthzCheck
    \/ AddReadyzCheck
    \/ SetupReturn
    \/ StartCall
    \/ StartReturn

Spec == Init /\ [][Next]_vars

\* ------------------------------------------------------------------------
\* Start in detail: the manager runs the registered startup tasks

\* contexts a runnable may be called with
ManagerCtx == "manager"
Contexts == {ManagerCtx, "background"}

\* the functions wrapped by addStartupTasks: e is what CreateDefaultDSCI,
\* CreateDefaultDSC or CleanupExistingResource returns; each function logs the
\* error and returns it
TaskFn(task, e) ==
    [ctx \in Contexts |-> [received |-> ctx, logged |-> e # NoError, ret |-> e]]

\* leaderElectionRunnableWrapper.Start, variant that drops the result of Fn
WrapperStartSwallow(fn, ctx) ==
    [ctxs |-> <<fn[ctx].received>>, logged |-> fn[ctx].logged,
     fnRet |-> fn[ctx].ret, ret |-> NoError]

\* leaderElectionRunnableWrapper.Start: return l.Fn(ctx)
WrapperStart(fn, ctx) ==
    [ctxs |-> <<fn[ctx].received>>, logged |-> fn[ctx].logged,
     fnRet |-> fn[ctx].ret, ret |-> fn[ctx].ret]

\* leaderElectionRunnableWrapper.NeedLeaderElection, variant that returns false
NeedLeaderElectionFalse == FALSE

\* leaderElectionRunnableWrapper.NeedLeaderElection
NeedLeaderElection == TRUE

\* one execution of the runnable registered as the i-th
Run(i, given, r) ==
    [idx |-> i, task |-> runnables[i], given |-> given, ctxs |-> r.ctxs,
     logged |-> r.logged, fnRet |-> r.fnRet, ret |-> r.ret]

Executed == {r.idx : r \in taskRuns}
FailedRuns == {r \in taskRuns : r.ret # NoError}

\* the environment of the process in the detailed runs: one handler per registry
RunInit ==
    /\ MainInit
    /\ NoReplicas
    /\ env \in {<<>>, <<"true">>}
    /\ operatorNs = <<"redhat-ods-operator">>
    /\ services = Prefix(ServiceOrder, 1)
    /\ components = Prefix(ComponentOrder, 1)

\* the manager starts the runnables that need leader election: at once when
\* LeaderElection is off, after winning the election when it is on
StartLeaderElectionRunnables ==
    /\ pc = "running"
    /\ ~leading
    /\ leading' = TRUE
    /\ UNCHANGED <<pc, exitCode, environment, cancelled, mainVars, taskRuns,
                   replicaVars, setupState, setupFlow>>

\* the manager calls Start of a registered runnable, once
RunTask ==
    /\ pc = "running"
    /\ NeedLeaderElection => leading
    /\ \E i \in (1..Len(runnables)) \ Executed :
         \E e \in Outcomes(runnables[i]) :
            taskRuns' = taskRuns \cup
               {Run(i, ManagerCtx, WrapperStart(TaskFn(runnables[i], e), ManagerCtx))}
    /\ UNCHANGED <<pc, exitCode, environment, cancelled, mainVars, leading,
                   replicaVars, setupState, setupFlow>>

\* o.mgr.Start(ctx) returns err to main
MgrStartReturns(err) ==
    /\ mainLog' = Append(mainLog, Returned("Start", err))
    /\ pc' = AfterStart(err).pc
    /\ exitCode' = AfterStart(err).exitCode
    /\ UNCHANGED <<environment, runVars, replicaVars, cancelled, config, factory,
                   op, started, factoryLog, setupState, setupFlow>>

\* the root context is done: the manager stops and Start returns nil
StartReturnCancelled ==
    /\ pc = "running"
    /\ cancelled
    /\ MgrStartReturns(NoError)

\* a runnable returned an error: the manager stops and Start returns that error
StartReturnRunnableError ==
    /\ pc = "running"
    /\ \E r \in FailedRuns : MgrStartReturns(r.ret)

\* the manager fails for a reason of its own
StartReturnFatal ==
    /\ pc = "running"
    /\ MgrStartReturns(Cause("manager"))

RunNext ==
    \/ LoadConfig
    \/ Signal
    \/ CreateOperator
    \/ NewClient
    \/ ClusterInit
    \/ InitServices
    \/ InitComponents
    \/ CreateSecretCache
    \/ CreateODHCache
    \/ NewManager
    \/ RegisterWebhooks
    \/ SetupDSCI
    \/ SetupDSC
    \/ CreateServiceReconcilers
    \/ CreateComponentReconcilers
    \/ AddStartupTasks
    \/ AddHealthzCheck
    \/ AddReadyzCheck
    \/ SetupReturn
    \/ StartCall
    \/ StartLeaderElectionRunnables
    \/ RunTask
    \/ StartReturnCancelled
    \/ StartReturnRunnableError
    \/ StartReturnFatal

RunSpec == RunInit /\ [][RunNext]_vars

\* a Start that can return does return: the select in the manager's Start
\* takes a ready case
RunLiveSpec ==
    /\ RunSpec
    /\ WF_vars(StartReturnCancelled)
    /\ WF_vars(StartReturnRunnableError)

\* ------------------------------------------------------------------------
\* Several replicas of the process, each past a successful Setup and in Start

Replicas == 1..MaxReplicas

\* the runnables Setup registered: variable absent, platform Open Data Hub
ReplicaTasks == Range(addStartupTasks(<<>>, OpenDataHub, {}).added)

\* a replica whose manager was built with LeaderElection: o.config.LeaderElection
Replica(cfg) ==
    [LeaderElection |-> cfg.LeaderElection, phase |-> "running",
     tasks |-> [t \in ReplicaTasks |-> "pending"]]

ReplicaInit ==
    /\ MainInit
    /\ env = <<>>
    /\ operatorNs = <<>>
    /\ services = <<>>
    /\ components = <<>>
    /\ lease = <<>>
    /\ replicas \in [Replicas -> {Replica(cfg) : cfg \in Configs}]

processVars == <<pc, exitCode, environment, cancelled, mainVars, runVars,
                 setupState, setupFlow>>

\* a replica with leader election on wins the election: it takes the free lease
ReplicaAcquire(r) ==
    /\ replicas[r].phase = "running"
    /\ replicas[r].LeaderElection
    /\ lease = <<>>
    /\ lease' = <<r>>
    /\ replicas' = [replicas EXCEPT ![r].phase = "leading"]
    /\ UNCHANGED processVars

\* a replica with leader election off starts its leader-election runnables at once
ReplicaNoElection(r) ==
    /\ replicas[r].phase = "running"
    /\ ~replicas[r].LeaderElection
    /\ replicas' = [replicas EXCEPT ![r].phase = "leading"]
    /\ UNCHANGED <<processVars, lease>>

\* the manager of a replica starts a startup task
ReplicaTaskBegin(r, t) ==
    /\ replicas[r].phase # "stopped"
    /\ NeedLeaderElection => replicas[r].phase = "leading"
    /\ replicas[r].tasks[t] = "pending"
    /\ replicas' = [replicas EXCEPT ![r].tasks[t] = "executing"]
    /\ UNCHANGED <<processVars, lease>>

\* a startup task returns
ReplicaTaskEnd(r, t) ==
    /\ replicas[r].phase # "stopped"
    /\ replicas[r].tasks[t] = "executing"
    /\ replicas' = [replicas EXCEPT ![r].tasks[t] = "done"]
    /\ UNCHANGED <<processVars, lease>>

\* a replica stops (cancelled, failed, or lost the lease): its tasks stop and
\* the lease it held becomes free
ReplicaStop(r) ==
    /\ replicas[r].phase # "stopped"
    /\ replicas' = [replicas EXCEPT
                      ![r].phase = "stopped",
                      ![r].tasks = [t \in ReplicaTasks |->
                                      IF replicas[r].tasks[t] = "executing"
                                      THEN "aborted" ELSE replicas[r].tasks[t]]]
    /\ lease' = IF lease = <<r>> THEN <<>> ELSE lease
    /\ UNCHANGED processVars

ReplicaAcquireAny == \E r \in Replicas : ReplicaAcquire(r)
ReplicaNoElectionAny == \E r \in Replicas : ReplicaNoElection(r)
ReplicaTaskBeginAny == \E r \in Replicas, t \in ReplicaTasks : ReplicaTaskBegin(r, t)
ReplicaTaskEndAny == \E r \in Replicas, t \in ReplicaTasks : ReplicaTaskEnd(r, t)
ReplicaStopAny == \E r \in Replicas : ReplicaStop(r)

ReplicaNext ==
    \/ ReplicaAcquireAny
    \/ ReplicaNoElectionAny
    \/ ReplicaTaskBeginAny
    \/ ReplicaTaskEndAny
    \/ ReplicaStopAny

ReplicaSpec == ReplicaInit /\ [][ReplicaNext]_vars

\* ------------------------------------------------------------------------
\* Factory.Create called repeatedly with arbitrary kinds

FactoryInit ==
    /\ MainInit
    /\ NoReplicas
    /\ env = <<>>
    /\ operatorNs = <<>>
    /\ services = <<>>
    /\ components = <<>>

\* NewFactory(cfg), on a process that has loaded its configuration
FactoryNew ==
    /\ factory = <<>>
    /\ \E cfg \in Configs :
         /\ config' = <<cfg>>
         /\ factory' = <<NewFactory(cfg)>>
    /\ UNCHANGED <<pc, exitCode, environment, runVars, replicaVars, cancelled, op, mainLog, started,
                   factoryLog, setupState, setupFlow>>

\* f.Create(kind): the receiver is only read
FactoryCreate(kind) ==
    /\ factory # <<>>
    /\ Len(factoryLog) < MaxCreateCalls
    /\ LET r == Create(factory[1], kind)
       IN factoryLog' = Append(factoryLog, [kind |-> kind, op |-> r.op, err |-> r.err])
    /\ UNCHANGED <<pc, exitCode, environment, runVars, replicaVars, cancelled, config, factory, op,
                   mainLog, started, setupState, setupFlow>>

FactoryCreateAny == \E kind \in Kinds : FactoryCreate(kind)

FactoryNext ==
    \/ FactoryNew
    \/ FactoryCreateAny

FactorySpec == FactoryInit /\ [][FactoryNext]_vars

\* ------------------------------------------------------------------------
\* Properties

Last(s) == s[Len(s)]
StepNames == [i \in 1..Len(steps) |-> steps[i][1]]
SetupSucceeded == Len(steps) = 15 /\ \A i \in 1..15 : steps[i][2]

\* C1: the steps of Setup begin in the fixed order client / cluster probe,
\* Init of service handlers, Init of component handlers, the two cache
\* configurations, manager construction, webhooks, the two built-in
\* reconcilers, NewReconciler of service handlers, NewReconciler of component
\* handlers, startup tasks, liveness probe, readiness probe; and a step begins
\* only when every step before it has returned successfully.
C1_SetupOrder ==
    /\ IsPrefix(StepNames,
                <<"client", "clusterInit", "initServices", "initComponents",
                  "secretCache", "odhCache", "newManager", "webhooks", "dsci",
                  "dsc", "serviceReconcilers", "componentReconcilers",
                  "startupTasks", "healthz", "readyz">>)
    /\ \A i \in 1..(Len(steps) - 1) : steps[i][2]

C1_Witness == SetupSucceeded /\ pc = "Start"

\* what the steps of Setup that completed have built
Kept ==
    /\ setupClient => setupClient'
    /\ platform # "" => platform' = platform /\ appNs' = appNs
    /\ secretCache \subseteq secretCache'
    /\ odhCache \subseteq odhCache'
    /\ mgr # <<>> => mgr' = mgr
    /\ webhooks => webhooks'
    /\ IsPrefix(calls, calls')
    /\ IsPrefix(controllers, controllers')
    /\ IsPrefix(runnables, runnables')
    /\ checks \subseteq checks'

\* C2: Setup is fail-fast. A step that fails makes Setup return an error in
\* that very transition and leaves in place what the earlier steps built;
\* once Setup has failed no step is executed (no later step, no retry) and
\* nothing of the Setup state changes (no rollback).
C2_FailFast ==
    [][ /\ (Len(steps') > Len(steps) /\ ~Last(steps')[2])
            => /\ setupErr' # NoError
               /\ pc' = "setupReturned"
               /\ Len(steps') = Len(steps) + 1
               /\ Kept
        /\ setupErr # NoError
            => /\ steps' = steps
               /\ setupErr' = setupErr
               /\ setupState' = setupState
               /\ pc' \in {"setupReturned", "exited"}
      ]_vars

C2_Witness ==
    /\ pc = "exited"
    /\ setupErr # NoError
    /\ Last(steps) = <<"dsc", FALSE>>
    /\ mgr # <<>>
    /\ webhooks
    /\ controllers = <<"dscinitialization">>

\* C3: Start is called only after Setup returned successfully; once Setup has
\* failed the process never starts the operator; Setup is entered only with
\* an Operator that Create returned without error.
C3_StartOnlyAfterSetup ==
    /\ (started \/ pc \in {"Start", "running"})
          => /\ SetupSucceeded
             /\ setupErr = NoError
             /\ Returned("Setup", NoError) \in Range(mainLog)
    /\ setupErr # NoError => ~started /\ pc \in {"setupReturned", "exited"}
    /\ steps # <<>> => op # <<>> /\ Returned("Create", NoError) \in Range(mainLog)

C3_Witness ==
    /\ pc = "exited"
    /\ setupErr # NoError
    /\ ~started
    /\ Last(mainLog).call = "Setup"

\* C4: the process has exit code 1 exactly when LoadConfig, Create, Setup or
\* Start returned an error, and exit code 0 exactly when the last call, Start,
\* returned nil; it has no exit code before it ends.
C4_ExitCodes ==
    LET failed == \E i \in 1..Len(mainLog) : mainLog[i].err # NoError
    IN IF pc = "exited"
       THEN /\ exitCode \in {0, 1}
            /\ exitCode = 1 <=> failed
            /\ exitCode = 0 <=> Last(mainLog) = Returned("Start", NoError)
       ELSE exitCode = NoExit /\ ~failed

C4_Witness ==
    /\ pc = "exited"
    /\ exitCode = 1
    /\ Last(mainLog).call = "Start"
    /\ Last(mainLog).err # NoError

\* C5: Create returns the main operator holding the Factory's config and no
\* error for "main"; no operator and an error naming cloud-manager for
\* "cloud-manager"; no operator and an unknown-type error naming the given
\* value for any other kind; whatever calls came before.
C5_Create ==
    /\ factoryLog # <<>> => factory = <<[config |-> config[1]]>>
    /\ \A i \in 1..Len(factoryLog) :
        LET e == factoryLog[i]
        IN CASE e.kind = "main" ->
                  /\ e.op = <<[type |-> "mainOperator", config |-> config[1]]>>
                  /\ e.err = <<>>
             [] e.kind = "cloud-manager" ->
                  /\ e.op = <<>>
                  /\ e.err # <<>>
                  /\ <<"text", "cloud-manager">> \in Range(e.err)
                  /\ \A t \in Range(e.err) : t[1] = "text"
             [] OTHER ->
                  /\ e.op = <<>>
                  /\ e.err = <<<<"text", "unknown operator type: ">>, <<"arg", e.kind>>>>

C5_Witness ==
    /\ Len(factoryLog) = 3
    /\ factoryLog[1].kind = "bogus"
    /\ factoryLog[2].kind = "cloud-manager"
    /\ factoryLog[3].kind = "main"
    /\ factoryLog[3].op # <<>>

\* the callbacks of one phase on one registry, in the order they were made
CallsOf(phase, kind) == SelectSeq(calls, LAMBDA c : c.phase = phase /\ c.kind = kind)
Registry(kind) == IF kind = "service" THEN services ELSE components
Phases == {"Init", "NewReconciler"}
HandlerKinds == {"service", "component"}

\* C6: in each handler phase the handlers are invoked in registration order
\* and the phase stops at the first handler that fails: the failing call is
\* the last callback ever made, Setup has returned an error that ends with
\* that handler's error and carries its name, and the operator is not started.
C6_HandlerFailFast ==
    /\ \A ph \in Phases, k \in HandlerKinds :
          IsPrefix(NamesOf(CallsOf(ph, k)), Registry(k))
    /\ \A i \in 1..Len(calls) :
          ~calls[i].ok =>
             /\ i = Len(calls)
             /\ setupErr # NoError
             /\ Last(setupErr) = <<"cause", calls[i].name>>
             /\ <<"name", calls[i].name>> \in Range(setupErr)
             /\ pc \in {"setupReturned", "exited"}
             /\ ~started

C6_Witness ==
    /\ Len(services) = 3
    /\ Len(calls) = 2
    /\ calls[2] = CallRec("Init", "service", services[2], platform, FALSE)
    /\ pc = "exited"

\* C7: each phase runs over the whole service registry before it touches the
\* component registry, no handler is invoked twice in a phase, and a
\* NewReconciler call is made only after Init succeeded for every handler of
\* both registries, each Init having received the resolved Platform.
C7_PhaseOrder ==
    /\ \A i, j \in 1..Len(calls) :
          /\ (i < j /\ calls[i].phase = calls[j].phase)
                => ~(calls[i].kind = "component" /\ calls[j].kind = "service")
          /\ (i # j /\ calls[i].phase = calls[j].phase /\ calls[i].kind = calls[j].kind)
                => calls[i].name # calls[j].name
    /\ \A ph \in Phases :
          CallsOf(ph, "component") # <<>> =>
             /\ NamesOf(CallsOf(ph, "service")) = services
             /\ \A i \in 1..Len(services) : CallsOf(ph, "service")[i].ok
    /\ \A j \in 1..Len(calls) :
          calls[j].phase = "NewReconciler" =>
             /\ platform \in Platforms
             /\ Len(services) + Len(components) < j
             /\ SubSeq(calls, 1, Len(services) + Len(components))
                  = [i \in 1..Len(services) |->
                        CallRec("Init", "service", services[i], platform, TRUE)]
                    \o [i \in 1..Len(components) |->
                        CallRec("Init", "component", components[i], platform, TRUE)]

C7_Witness ==
    /\ Len(services) >= 2
    /\ Len(components) >= 2
    /\ Len(calls) = 2 * (Len(services) + Len(components))
    /\ Last(calls).phase = "NewReconciler"
    /\ Last(calls).ok

HandlerSteps(kind) ==
    IF kind = "service" THEN {"initServices", "serviceReconcilers"}
    ELSE {"initComponents", "componentReconcilers"}

\* C8: with an empty registry the Init and NewReconciler phases over it invoke
\* no callback and succeed, so that with both registries empty Setup fails
\* only if a step other than the handler phases fails.
C8_EmptyRegistry ==
    \A k \in HandlerKinds :
        Registry(k) = <<>> =>
           /\ \A i \in 1..Len(calls) : calls[i].kind # k
           /\ \A i \in 1..Len(steps) : steps[i][1] \in HandlerSteps(k) => steps[i][2]

C8_Witness ==
    /\ services = <<>>
    /\ components = <<>>
    /\ calls = <<>>
    /\ SetupSucceeded
    /\ setupErr = NoError
    /\ pc = "Start"

SecretBuilt == <<"secretCache", TRUE>> \in Range(steps)
GeneralBuilt == <<"odhCache", TRUE>> \in Range(steps)

\* C9 as stated: off the managed flavor neither namespace set contains the
\* console-link namespace, on the managed flavor both do.
C9_Original ==
    /\ SecretBuilt => (NamespaceConsoleLink \in secretCache <=> platform = ManagedRhoai)
    /\ GeneralBuilt => (NamespaceConsoleLink \in odhCache <=> platform = ManagedRhoai)

\* C9: on the managed flavor both namespace sets contain the console-link
\* namespace; on any other Platform a set contains it only when it is the
\* operator namespace or the application namespace itself.
C9_ConsoleLink ==
    LET own == NamespaceConsoleLink \in {operatorNs[1], appNs}
    IN /\ SecretBuilt =>
            (NamespaceConsoleLink \in secretCache <=> (platform = ManagedRhoai \/ own))
       /\ GeneralBuilt =>
            (NamespaceConsoleLink \in odhCache <=> (platform = ManagedRhoai \/ own))

C9_Witness ==
    /\ GeneralBuilt
    /\ platform = OpenDataHub
    /\ NamespaceConsoleLink \notin secretCache \cup odhCache
    /\ mgr # <<>>

\* C10 as stated: the secret set is within the general set plus the operator
\* namespace, and the general set is strictly larger than the secret set.
C10_Original ==
    GeneralBuilt =>
       /\ secretCache \subseteq odhCache \cup {operatorNs[1]}
       /\ secretCache \subseteq odhCache
       /\ secretCache # odhCache

\* C10: the secret set is a subset of the general set, which is the secret
\* set plus openshift-operators; the general set is strictly larger exactly
\* when openshift-operators is neither the operator namespace nor the
\* application namespace.
C10_SecretWithinGeneral ==
    GeneralBuilt =>
       /\ secretCache \subseteq odhCache \cup {operatorNs[1]}
       /\ secretCache \subseteq odhCache
       /\ odhCache = secretCache \cup {"openshift-operators"}
       /\ secretCache # odhCache <=> "openshift-operators" \notin {operatorNs[1], appNs}

C10_Witness ==
    /\ GeneralBuilt
    /\ operatorNs = <<"redhat-ods-operator">>
    /\ appNs = "opendatahub"
    /\ odhCache \ secretCache = {"openshift-operators"}

\* C11 as stated: the cache configurations are built, and the manager is
\* constructed, only with the operator namespace and the application namespace
\* resolved; no namespace map handed to the manager has an empty entry.
C11_UnresolvedAborts ==
    /\ (SecretBuilt \/ GeneralBuilt) => operatorNs # <<>> /\ appNs # Unresolved
    /\ mgr # <<>> =>
          /\ mgr[1].secretNs # {}
          /\ mgr[1].generalNs # {}
          /\ Unresolved \notin mgr[1].secretNs \cup mgr[1].generalNs

StartupPhaseRan == "startupTasks" \in Range(StepNames)
StartupPhaseDone == <<"startupTasks", TRUE>> \in Range(steps)
TriedTask(t) == \E i \in 1..Len(addCalls) : addCalls[i][1] = t

\* C12 as stated: the DSCI creation task is scheduled unless the variable is
\* set to exactly the disabling string "true".
C12_Original ==
    StartupPhaseRan => (TriedTask(DSCITask) <=> env # <<"true">>)

\* C12: the DSCI creation task is scheduled when the variable is absent and
\* when it is set to "false"; it is not scheduled when the variable is set to
\* the empty string or to any other value.
C12_Scheduling ==
    StartupPhaseRan =>
       CASE env = <<>> -> TriedTask(DSCITask)
         [] env = <<"">> -> ~TriedTask(DSCITask)
         [] env = <<"false">> -> TriedTask(DSCITask)
         [] OTHER -> ~TriedTask(DSCITask)

C12_Witness ==
    /\ env = <<"">>
    /\ StartupPhaseDone
    /\ ~TriedTask(DSCITask)
    /\ DSCITask \notin Range(runnables)

\* C16: the DSCI creation task is skipped (mgr.Add is not even called for it)
\* exactly when the variable is present with a value other than "false";
\* otherwise it is the first runnable handed to mgr.Add, and it is registered
\* when the manager accepts it.
C16_OptOut ==
    StartupPhaseRan =>
       LET skipped == Len(env) = 1 /\ env[1] # "false"
       IN /\ skipped <=> ~TriedTask(DSCITask)
          /\ ~skipped => addCalls[1][1] = DSCITask
          /\ (~skipped /\ addCalls[1][2]) => runnables[1] = DSCITask
          /\ skipped => DSCITask \notin Range(runnables)

C16_Witness ==
    /\ env = <<"false">>
    /\ StartupPhaseDone
    /\ runnables[1] = DSCITask

\* C17: the DSC creation task is handed to mgr.Add only on the managed flavor;
\* whenever the startup-task phase gets past the DSCI registration it is
\* handed to mgr.Add exactly on the managed flavor, and after the phase has
\* succeeded it is registered exactly on the managed flavor; the environment
\* variable plays no part.
C17_DSCOnlyManaged ==
    /\ TriedTask(DSCTask) => platform = ManagedRhoai
    /\ (StartupPhaseRan /\ <<DSCITask, FALSE>> \notin Range(addCalls))
          => (TriedTask(DSCTask) <=> platform = ManagedRhoai)
    /\ StartupPhaseDone => (DSCTask \in Range(runnables) <=> platform = ManagedRhoai)

C17_Witness ==
    /\ platform = ManagedRhoai
    /\ env = <<"true">>
    /\ StartupPhaseDone
    /\ runnables[1] = DSCTask

\* C18: on every Platform and for every value of the variable, the cleanup
\* task is handed to mgr.Add whenever the startup-task phase was not aborted
\* by the registration of an earlier task; when mgr.Add rejects it the phase
\* still succeeds and Setup goes on with the health checks.
C18_CleanupBestEffort ==
    /\ StartupPhaseRan =>
          (TriedTask(CleanupTask)
             <=> (<<DSCITask, FALSE>> \notin Range(addCalls)
                  /\ <<DSCTask, FALSE>> \notin Range(addCalls)))
    /\ TriedTask(CleanupTask) => StartupPhaseDone
    /\ <<CleanupTask, FALSE>> \in Range(addCalls) =>
          /\ StartupPhaseDone
          /\ pc # "startupTasks"
          /\ setupErr # NoError => Last(steps)[1] \in {"healthz", "readyz"}

C18_Witness ==
    /\ <<CleanupTask, FALSE>> \in Range(addCalls)
    /\ SetupSucceeded
    /\ checks = {"healthz", "readyz"}
    /\ pc = "Start"

\* C13 as stated: a startup task that fails is logged and nothing more: Start
\* does not return the task's error and the process does not end with a
\* non-zero exit code because of it.
C13_BestEffort ==
    \A r \in taskRuns :
        r.fnRet # NoError =>
           /\ r.logged
           /\ Returned("Start", r.fnRet) \notin Range(mainLog)
           /\ ~(pc = "exited" /\ exitCode # 0 /\ Last(mainLog).err = r.fnRet)

\* C15: Start, once the root context is cancelled or a runnable has reported
\* an error to the manager, eventually returns and the process ends; once the
\* process has ended nothing changes any more: no task runs, nothing restarts.
C15_StartReturns ==
    /\ (pc = "running" /\ (cancelled \/ FailedRuns # {})) ~> (pc = "exited")
    /\ [][pc = "exited" => UNCHANGED vars]_vars

C15_Witness ==
    /\ pc = "exited"
    /\ cancelled
    /\ Last(mainLog) = Returned("Start", NoError)
    /\ exitCode = 0
    /\ taskRuns # {}

\* C19: a startup task is added to the manager at most once and only by the
\* startup-task step of Setup; its function runs at most once, only while Start
\* is running after a successful Setup, and a run that has returned is neither
\* repeated nor forgotten.
C19_TasksOnce ==
    [][ /\ runnables' # runnables => pc = "startupTasks"
        /\ \A t \in Tasks :
              /\ Cardinality({i \in 1..Len(runnables') : runnables'[i] = t}) <= 1
              /\ Cardinality({r \in taskRuns' : r.task = t}) <= 1
        /\ taskRuns' # taskRuns =>
              /\ pc = "running"
              /\ started
              /\ SetupSucceeded
              /\ Returned("Setup", NoError) \in Range(mainLog)
        /\ taskRuns \subseteq taskRuns'
        /\ pc \notin {"running", "exited"} => taskRuns' = {}
      ]_vars

C19_Witness ==
    /\ Cardinality(taskRuns) = 3
    /\ Len(runnables) = 3
    /\ FailedRuns = {}
    /\ pc = "exited"

\* C20: every startup task runs only on a manager that has started its
\* leader-election runnables (the wrapper asks for leadership), and starting
\* it calls the wrapped function once, with the context the manager passed,
\* and hands back exactly what the function returned.
C20_Wrapper ==
    /\ taskRuns # {} => leading
    /\ \A r \in taskRuns :
          /\ r.ctxs = <<r.given>>
          /\ r.ret = r.fnRet

C20_Witness ==
    \E r \in taskRuns :
        /\ r.task = CleanupTask
        /\ r.fnRet = Cause(CleanupTask)
        /\ r.ret = r.fnRet
        /\ r.given = ManagerCtx

Executing(r) == \E t \in ReplicaTasks : replicas[r].tasks[t] = "executing"

\* C14 as stated: whatever the leader-election toggle, a replica executes a
\* startup task only while it holds the lease, and no two replicas execute
\* startup tasks at the same time.
C14_Original ==
    /\ \A r \in Replicas : Executing(r) => lease = <<r>>
    /\ \A r1, r2 \in Replicas : (Executing(r1) /\ Executing(r2)) => r1 = r2

\* C14: among the replicas that run with leader election on, only the holder
\* of the lease has started its leader-election runnables, a startup task is
\* begun only by the holder and executes only on the holder, so no two of
\* them execute startup tasks at the same time.
C14_LeaderGated ==
    /\ \A r \in Replicas :
          replicas[r].LeaderElection =>
             /\ replicas[r].phase = "leading" <=> lease = <<r>>
             /\ Executing(r) => lease = <<r>>
             /\ replicas[r].phase = "running" =>
                   \A t \in ReplicaTasks : replicas[r].tasks[t] = "pending"
    /\ \A r1, r2 \in Replicas :
          (replicas[r1].LeaderElection /\ replicas[r2].LeaderElection
             /\ Executing(r1) /\ Executing(r2)) => r1 = r2

C14_Witness ==
    /\ \A r \in Replicas : replicas[r].LeaderElection
    /\ lease = <<2>>
    /\ Executing(2)
    /\ replicas[1].phase = "stopped"
    /\ replicas[1].tasks[CleanupTask] = "done"

SchedulingError(t) ==
    IF t = DSCITask
    THEN Wrap(<<T("error scheduling DSCI creation: ")>>, Cause(DSCITask))
    ELSE Wrap(<<T("error scheduling DSC creation: ")>>, Cause(DSCTask))

\* C21: when the manager rejects the registration of the default DSCI task or
\* of the default DSC task, Setup returns that error from the startup-task
\* step: the rejected registration is the last one attempted, no task after it
\* (the cleanup included) is registered, no probe is registered, and the
\* operator is never started.
C21_RegistrationAborts ==
    \A t \in {DSCITask, DSCTask} :
        <<t, FALSE>> \in Range(addCalls) =>
           /\ Last(addCalls) = <<t, FALSE>>
           /\ setupErr = SchedulingError(t)
           /\ Last(steps) = <<"startupTasks", FALSE>>
           /\ pc \in {"setupReturned", "exited"}
           /\ t \notin Range(runnables)
           /\ CleanupTask \notin Range(runnables)
           /\ ~TriedTask(CleanupTask)
           /\ (t = DSCITask => runnables = <<>> /\ ~TriedTask(DSCTask))
           /\ checks = {}
           /\ ~started
           /\ pc = "exited" => exitCode = 1

C21_Witness ==
    /\ addCalls = <<<<DSCITask, TRUE>>, <<DSCTask, FALSE>>>>
    /\ runnables = <<DSCITask>>
    /\ platform = ManagedRhoai
    /\ pc = "exited"
    /\ exitCode = 1

\* Setup has returned nil
SetupReturnedSuccess ==
    \/ pc = "setupReturned" /\ setupErr = NoError
    \/ Returned("Setup", NoError) \in Range(mainLog)

\* every handler of both registries: Init once, then NewReconciler once, all ok
AllHandlerCalls ==
    [i \in 1..Len(services) |->
        CallRec("Init", "service", services[i], platform, TRUE)]
    \o [i \in 1..Len(components) |->
        CallRec("Init", "component", components[i], platform, TRUE)]
    \o [i \in 1..Len(services) |->
        CallRec("NewReconciler", "service", services[i], "mgr", TRUE)]
    \o [i \in 1..Len(components) |->
        CallRec("NewReconciler", "component", components[i], "mgr", TRUE)]

\* C22: once Setup has returned success the manager is stored in the Operator,
\* the webhooks and both built-in reconcilers are registered, every handler of
\* both registries has had Init and NewReconciler called exactly once each,
\* successfully, and both probes are registered; the manager is absent only
\* while Setup has not returned success, and Start is called only with the
\* manager present.
C22_SetupPostcondition ==
    /\ SetupReturnedSuccess =>
          /\ mgr # <<>>
          /\ webhooks
          /\ controllers = <<"dscinitialization", "datasciencecluster">>
                              \o services \o components
          /\ calls = AllHandlerCalls
          /\ checks = {"healthz", "readyz"}
    /\ mgr = <<>> => ~SetupReturnedSuccess /\ ~started /\ pc # "Start"
    /\ started => mgr # <<>> /\ exitCode # 2

C22_Witness ==
    /\ pc = "setupReturned"
    /\ setupErr = NoError
    /\ Len(services) >= 2
    /\ Len(components) >= 2
    /\ calls = AllHandlerCalls
    /\ mgr # <<>>

====
